---- MODULE Spec2Model ----
(***************************************************************************)
(* Session orchestration engine of zeitlich: the Agent State Manager       *)
(* (lib/state-manager.ts), the task tool handlers, the Tool Router         *)
(* pipeline (lib/tool-router.ts) and the turn loop (lib/session.ts).       *)
(*                                                                         *)
(* The specifications share the state:                                     *)
(*   SpecSM     drives the state manager with arbitrary calls;             *)
(*   SpecTasks  drives the task tool handlers with arbitrary calls;        *)
(*   SpecRelations applies relation updates to the update handler's tasks; *)
(*   SpecWait   runs the waitForStateChange update handler while the       *)
(*              workflow goes on calling the state manager;                *)
(*   SpecParse  applies the router's parseToolCall to arbitrary raw calls; *)
(*   SpecDispatch runs processToolCalls on one Task (subagent) call;       *)
(*   SpecArgs   follows the arguments of one call through the pipeline;    *)
(*   SpecCalls  runs processToolCalls on an array of calls up to its       *)
(*              return value;                                              *)
(*   Spec       runs one runSession: the turn loop and, per turn, the      *)
(*              router's per-call pipeline, one step per await.            *)
(***************************************************************************)
EXTENDS Integers, Sequences, FiniteSets, TLC

VARIABLES
  sm,          \* closure state of createAgentStateManager: status, version,
               \* turns, tools, tasks (keys of the manager's Map), custom
  objects,     \* the WorkflowTask objects, by id (Maps hold references)
  updTasks,    \* keys of the Map given to createTaskUpdateHandler
  nextId,      \* next id uuid4() hands out
  ops,         \* operations the driver of SpecSM / SpecTasks may still issue
  pc,          \* position of runSession
  exitReason,  \* local variable exitReason of runSession
  result,      \* what runSession returns or throws
  batch,       \* the calls of the processToolCalls in progress
  thread,      \* tool results appended to the thread (appendToolResult) since
               \* the last model response
  sessionEnd,  \* invocations of onSessionEnd: exitReason, turns
  modelCalls,  \* number of runAgent invocations
  cfg,         \* configuration given to createSession
  rawToolCalls, \* SpecParse: the raw tool calls given to the parser
  parseLog,    \* SpecParse: the outcomes of parseToolCall, one per raw call
  hist         \* history of the run, read by the properties only

smVars == <<sm, objects, updTasks, nextId, ops>>
sessVars == <<pc, exitReason, result, batch, thread, sessionEnd, modelCalls, cfg,
              rawToolCalls, parseLog, hist>>
vars == <<sm, objects, updTasks, nextId, ops, pc, exitReason, result, batch,
          thread, sessionEnd, modelCalls, cfg, rawToolCalls, parseLog, hist>>

-----------------------------------------------------------------------------
(* Bounds *)

MaxTasks == 3      \* ids uuid4() can hand out
MaxOps == 3        \* operations issued by the driver of SpecSM
MaxTaskOps == 2    \* operations issued by the driver of SpecTasks
MaxTurns == 2      \* maxTurns given to createSession
MaxHookOps == 1    \* state manager calls made by hooks in one session

-----------------------------------------------------------------------------
(* Agent State Manager: lib/state-manager.ts *)

AgentStatus == {"RUNNING", "WAITING_FOR_INPUT", "COMPLETED", "FAILED", "CANCELLED"}

isTerminalStatus(status) ==
  status = "COMPLETED" \/ status = "FAILED" \/ status = "CANCELLED"

getStatus(s) == s.status
isRunning(s) == s.status = "RUNNING"
isTerminal(s) == isTerminalStatus(s.status)
getTurns(s) == s.turns
getVersion(s) == s.version

run(s) == [s EXCEPT !.status = "RUNNING", !.version = @ + 1]
\* Mutant: the status changes without a version bump.
waitForInput_keepsVersion(s) == [s EXCEPT !.status = "WAITING_FOR_INPUT"]
waitForInput(s) == [s EXCEPT !.status = "WAITING_FOR_INPUT", !.version = @ + 1]
complete(s) == [s EXCEPT !.status = "COMPLETED", !.version = @ + 1]
fail(s) == [s EXCEPT !.status = "FAILED", !.version = @ + 1]
cancel(s) == [s EXCEPT !.status = "CANCELLED", !.version = @ + 1]

incrementVersion(s) == [s EXCEPT !.version = @ + 1]
\* Mutant: a turn counts twice.
incrementTurns_byTwo(s) == [s EXCEPT !.turns = @ + 2]
incrementTurns(s) == [s EXCEPT !.turns = @ + 1]

set(s, key, value) == [s EXCEPT !.custom[key] = value, !.version = @ + 1]

\* Mutant: the task is stored without a version bump.
setTask_keepsVersion(s, id) == [s EXCEPT !.tasks = @ \cup {id}]

\* tasks.set(task.id, task); version++
setTask(s, id) == [s EXCEPT !.tasks = @ \cup {id}, !.version = @ + 1]

\* Mutant: the version is bumped whether or not the key was there.
deleteTask_alwaysBumps(s, id) == [s EXCEPT !.tasks = @ \ {id}, !.version = @ + 1]

\* tasks.delete(id); version++ only when the key was there
deleteTask(s, id) ==
  IF id \in s.tasks
    THEN [s EXCEPT !.tasks = @ \ {id}, !.version = @ + 1]
    ELSE s

\* tasks.get(id): the key, or the absent value
NoTaskId == 0
getTask(s, id) == IF id \in s.tasks THEN id ELSE NoTaskId

\* tools = newTools.map(...): the version is left alone
setTools(s, newTools) == [s EXCEPT !.tools = newTools]

CustomKeys == {"k"}
CustomValues == {"v0", "v1"}
ToolSnapshots == {<<>>, <<"Read">>}

\* buildState(): the snapshot returned by getCurrentState() and by the state
\* query; the tasks Map is not part of it.
buildState(s) ==
  [status |-> s.status, version |-> s.version, turns |-> s.turns,
   tools |-> s.tools, custom |-> s.custom]

getCurrentState(s) == buildState(s)

\* Mutant: the current version itself already counts as a change.
shouldReturnFromWait_notStrict(s, lastKnownVersion) ==
  s.version >= lastKnownVersion \/ isTerminalStatus(s.status)

\* return version > lastKnownVersion || isTerminalStatus(status)
shouldReturnFromWait(s, lastKnownVersion) ==
  s.version > lastKnownVersion \/ isTerminalStatus(s.status)

InitialSM(initTasks) ==
  [status |-> "RUNNING", version |-> 0, turns |-> 0, tools |-> <<>>,
   tasks |-> initTasks, custom |-> [k \in CustomKeys |-> "v0"]]

-----------------------------------------------------------------------------
(* Task tools: tools/task-create/handler.ts, tools/task-update/handler.ts *)

TaskIds == 1..MaxTasks
Ghost == MaxTasks + 1   \* an id uuid4() never hands out
NoTask == [id |-> Ghost, status |-> "none", blockedBy |-> <<>>, blocks |-> <<>>]

NewTask(id) == [id |-> id, status |-> "pending", blockedBy |-> <<>>, blocks |-> <<>>]

\* Mutant: the membership test always fails.
includes_never(seq, x) == FALSE

includes(seq, x) == \E i \in 1..Len(seq) : seq[i] = x

\* for (const blockerId of args.addBlockedBy) { ... }
RECURSIVE addBlockedBy(_, _, _, _)
addBlockedBy(objs, map, taskId, ids) ==
  IF ids = <<>> THEN objs
  ELSE LET blockerId == Head(ids)
           o1 == IF ~includes(objs[taskId].blockedBy, blockerId)
                   THEN [objs EXCEPT ![taskId].blockedBy = Append(@, blockerId)]
                   ELSE objs
           o2 == IF blockerId \in map /\ ~includes(o1[blockerId].blocks, taskId)
                   THEN [o1 EXCEPT ![blockerId].blocks = Append(@, taskId)]
                   ELSE o1
       IN addBlockedBy(o2, map, taskId, Tail(ids))

\* for (const blockedId of args.addBlocks) { ... }
RECURSIVE addBlocks(_, _, _, _)
addBlocks(objs, map, taskId, ids) ==
  IF ids = <<>> THEN objs
  ELSE LET blockedId == Head(ids)
           o1 == IF ~includes(objs[taskId].blocks, blockedId)
                   THEN [objs EXCEPT ![taskId].blocks = Append(@, blockedId)]
                   ELSE objs
           o2 == IF blockedId \in map /\ ~includes(o1[blockedId].blockedBy, taskId)
                   THEN [o1 EXCEPT ![blockedId].blockedBy = Append(@, taskId)]
                   ELSE o1
       IN addBlocks(o2, map, taskId, Tail(ids))

\* The objects after the update handler ran on a task its Map holds.
updateObjects(objs, map, args) ==
  LET o0 == IF args.status # "none"
              THEN [objs EXCEPT ![args.taskId].status = args.status]
              ELSE objs
      o1 == addBlockedBy(o0, map, args.taskId, args.addBlockedBy)
  IN addBlocks(o1, map, args.taskId, args.addBlocks)

\* The ids a caller can name: those uuid4() has handed out so far, and one it
\* never hands out.
KnownIds == {i \in TaskIds : i < nextId} \cup {Ghost}
IdLists == {<<>>} \cup {<<i>> : i \in KnownIds}
UpdateStatuses == {"none", "completed"}
UpdateArgs ==
  [taskId : KnownIds, status : UpdateStatuses, addBlockedBy : IdLists, addBlocks : IdLists]

-----------------------------------------------------------------------------
(* SpecSM: the state manager and the task handlers under arbitrary calls *)

SessionIdle ==
  /\ pc = "idle"
  /\ exitReason = "completed"
  /\ result = [kind |-> "none", turn |-> 0]
  /\ batch = <<>>
  /\ thread = <<>>
  /\ sessionEnd = <<>>
  /\ modelCalls = 0
  /\ rawToolCalls = <<>>
  /\ parseLog = <<>>
  /\ hist = [endTurnAt |-> 0, endTurnCalls |-> 0, failTurn |-> 0,
             thrownBy |-> "none", hookOps |-> 0, rejected |-> {}, rawCalls |-> 0]

\* Sizes of initialState.tasks.
InitTaskCounts == {0, 1, 2}

NoHooks ==
  [gPre |-> FALSE, tPre |-> FALSE, gFail |-> FALSE, tFail |-> FALSE,
   gPost |-> FALSE, tPost |-> FALSE]

\* createAgentStateManager({initialState}); the Map of initialState.tasks is
\* also the Map the update handler is created with. The manager copies the
\* Map (new Map(initialState?.tasks)), so the two share the task objects only.
InitManager(budget) ==
  /\ \E n \in InitTaskCounts :
       /\ sm = InitialSM(1..n)
       /\ updTasks = 1..n
       /\ objects = [i \in TaskIds |-> IF i <= n THEN NewTask(i) ELSE NoTask]
       /\ nextId = n + 1
  /\ ops = budget
  /\ cfg = [parallel |-> FALSE, maxTurns |-> MaxTurns, tools |-> {"Read"}, subagents |-> FALSE,
            hooks |-> NoHooks]
  /\ SessionIdle

InitSM == InitManager(MaxOps)
InitTasks == InitManager(MaxTaskOps)

Issue == ops > 0 /\ ops' = ops - 1

Run == Issue /\ sm' = run(sm) /\ UNCHANGED <<objects, updTasks, nextId>> /\ UNCHANGED sessVars
WaitForInput == Issue /\ sm' = waitForInput(sm) /\ UNCHANGED <<objects, updTasks, nextId>> /\ UNCHANGED sessVars
Complete == Issue /\ sm' = complete(sm) /\ UNCHANGED <<objects, updTasks, nextId>> /\ UNCHANGED sessVars
Fail == Issue /\ sm' = fail(sm) /\ UNCHANGED <<objects, updTasks, nextId>> /\ UNCHANGED sessVars
Cancel == Issue /\ sm' = cancel(sm) /\ UNCHANGED <<objects, updTasks, nextId>> /\ UNCHANGED sessVars
IncrementVersion == Issue /\ sm' = incrementVersion(sm) /\ UNCHANGED <<objects, updTasks, nextId>> /\ UNCHANGED sessVars
IncrementTurns == Issue /\ sm' = incrementTurns(sm) /\ UNCHANGED <<objects, updTasks, nextId>> /\ UNCHANGED sessVars

Set ==
  /\ Issue
  /\ \E key \in CustomKeys, value \in CustomValues : sm' = set(sm, key, value)
  /\ UNCHANGED <<objects, updTasks, nextId>> /\ UNCHANGED sessVars

SetTools ==
  /\ Issue
  /\ \E newTools \in ToolSnapshots : sm' = setTools(sm, newTools)
  /\ UNCHANGED <<objects, updTasks, nextId>> /\ UNCHANGED sessVars

\* What a lookup or a handler hands back: the task (or true), or nothing.
found(kind, isThere) == [kind |-> kind, found |-> isThere]

resultFrame == UNCHANGED <<pc, exitReason, batch, thread, sessionEnd, modelCalls,
                           cfg, rawToolCalls, parseLog, hist>>

\* deleteTask(id): returns whether the key was there
DeleteTaskOf(id) ==
  /\ Issue
  /\ sm' = deleteTask(sm, id)
  /\ result' = found("deleteTask", id \in sm.tasks)
  /\ UNCHANGED <<objects, updTasks, nextId>> /\ resultFrame

DeleteTask == \E id \in KnownIds : DeleteTaskOf(id)

\* getTask(id): tasks.get(id), undefined for a key that is not there
GetTaskOf(id) ==
  /\ Issue
  /\ result' = found("getTask", getTask(sm, id) # NoTaskId)
  /\ UNCHANGED <<sm, objects, updTasks, nextId>> /\ resultFrame

GetTask == \E id \in KnownIds : GetTaskOf(id)

\* createTaskGetHandler: stateManager.getTask(args.taskId) ?? null, and the
\* not-found content when there is none
TaskGetOf(id) ==
  /\ Issue
  /\ result' = found("TaskGet", getTask(sm, id) # NoTaskId)
  /\ UNCHANGED <<sm, objects, updTasks, nextId>> /\ resultFrame

TaskGet == \E id \in KnownIds : TaskGetOf(id)

\* createTaskCreateHandler: a new task object under a fresh id, stored with
\* stateManager.setTask.
TaskCreate ==
  /\ Issue
  /\ nextId <= MaxTasks
  /\ objects' = [objects EXCEPT ![nextId] = NewTask(nextId)]
  /\ sm' = setTask(sm, nextId)
  /\ nextId' = nextId + 1
  /\ UNCHANGED updTasks
  /\ UNCHANGED sessVars

\* createTaskUpdateHandler(tasks, stateManager): looks the task up in its own
\* Map, mutates the task objects in place, then stateManager.incrementVersion().
TaskUpdateWith(args) ==
  /\ Issue
  /\ IF args.taskId \notin updTasks
       THEN UNCHANGED <<sm, objects>>
       ELSE /\ objects' = updateObjects(objects, updTasks, args)
            /\ sm' = incrementVersion(sm)
  /\ result' = found("TaskUpdate", args.taskId \in updTasks)
  /\ UNCHANGED <<updTasks, nextId>>
  /\ resultFrame

TaskUpdate == \E args \in UpdateArgs : TaskUpdateWith(args)

\* Versions a client can hold as lastKnownVersion.
KnownVersions == 0..MaxOps

\* shouldReturnFromWait(lastKnownVersion), its return value kept in result.
ShouldReturnFromWait ==
  /\ Issue
  /\ \E lastKnownVersion \in KnownVersions :
       result' = [kind |-> "shouldReturn", last |-> lastKnownVersion,
                  value |-> shouldReturnFromWait(sm, lastKnownVersion)]
  /\ UNCHANGED <<sm, objects, updTasks, nextId>>
  /\ UNCHANGED <<pc, exitReason, batch, thread, sessionEnd, modelCalls, cfg,
                 rawToolCalls, parseLog, hist>>

NextSM ==
  \/ Run \/ WaitForInput \/ Complete \/ Fail \/ Cancel
  \/ IncrementVersion \/ IncrementTurns \/ Set \/ SetTools
  \/ DeleteTask \/ TaskCreate \/ ShouldReturnFromWait \/ GetTask

NextTasks == TaskCreate \/ TaskUpdate \/ DeleteTask \/ TaskGet \/ GetTask

\* Updates that add relations among the tasks of the handler's Map and one id
\* the Map does not hold: no id, one id, or one id named twice.
RelationIds == updTasks \cup {Ghost}
RelationLists == {<<>>} \cup {<<i>> : i \in RelationIds} \cup {<<i, i>> : i \in RelationIds}
RelationArgs ==
  [taskId : updTasks, status : {"none"}, addBlockedBy : RelationLists,
   addBlocks : RelationLists]

RelationUpdate == \E args \in RelationArgs : TaskUpdateWith(args)

NextRelations == RelationUpdate

\* The update handler alone, over the Map it was created with.
SpecRelations == InitTasks /\ [][NextRelations]_vars

SpecTasks == InitTasks /\ [][NextTasks]_vars

SpecSM == InitSM /\ [][NextSM]_vars

-----------------------------------------------------------------------------
(* The waitForStateChange update handler of lib/state-manager.ts, run while *)
(* the workflow goes on calling the state manager                           *)

\* Mutant: condition() is called without a timeout.
conditionTimeout_none == FALSE

\* condition(fn, "55s"): the timer fires however long fn stays false
conditionTimeout == TRUE

\* () => version > lastKnownVersion || isTerminalStatus(status)
waitCondition(s, lastKnownVersion) ==
  s.version > lastKnownVersion \/ isTerminalStatus(s.status)

waitFrame == UNCHANGED <<sm, objects, updTasks, nextId, ops, exitReason, batch, thread,
                         sessionEnd, modelCalls, cfg, rawToolCalls, parseLog, hist>>

\* A client sends the update with the version it last saw.
WaitForStateChange ==
  /\ pc \in {"idle", "waited"}
  /\ \E lastKnownVersion \in KnownVersions :
       result' = [kind |-> "wait", last |-> lastKnownVersion]
  /\ pc' = "waiting"
  /\ waitFrame

\* await condition(...) resolves because the predicate holds
ConditionMet ==
  /\ pc = "waiting"
  /\ waitCondition(sm, result.last)
  /\ result' = [kind |-> "resumed", last |-> result.last, timedOut |-> FALSE]
  /\ pc' = "resumed"
  /\ waitFrame

\* await condition(...) resolves because the timeout elapsed
ConditionTimeout ==
  /\ pc = "waiting"
  /\ conditionTimeout
  /\ ~waitCondition(sm, result.last)
  /\ result' = [kind |-> "resumed", last |-> result.last, timedOut |-> TRUE]
  /\ pc' = "resumed"
  /\ waitFrame

\* return buildState()
WaitReturn ==
  /\ pc = "resumed"
  /\ result' = [kind |-> "state", last |-> result.last, timedOut |-> result.timedOut,
                state |-> buildState(sm)]
  /\ pc' = "waited"
  /\ waitFrame

NextWait ==
  \/ Run \/ WaitForInput \/ Complete \/ Fail \/ Cancel
  \/ IncrementVersion \/ IncrementTurns \/ Set \/ SetTools \/ TaskCreate
  \/ WaitForStateChange \/ ConditionMet \/ ConditionTimeout \/ WaitReturn

\* The workflow keeps running its timers and resumes what can be resumed.
SpecWait ==
  /\ InitSM /\ [][NextWait]_vars
  /\ WF_vars(ConditionMet) /\ WF_vars(ConditionTimeout) /\ WF_vars(WaitReturn)

-----------------------------------------------------------------------------
(* Tool Router, per-call pipeline: lib/tool-router.ts, processToolCall *)

\* Steps of one call, each ending at an await of processToolCall.
Finished == {"done", "skipped", "thrown"}

\* After the handler (or a failure hook) threw or did not recover:
\* per-tool onPostToolUseFailure first, then the global one, else rethrow.
afterHandlerThrow(hooks) ==
  IF hooks.tFail THEN "tfail" ELSE IF hooks.gFail THEN "gfail" ELSE "thrown"

afterToolFailure(hooks, recovered) ==
  IF recovered THEN "append" ELSE IF hooks.gFail THEN "gfail" ELSE "thrown"

\* Mutant: a recovered failure returns without the append.
afterGlobalFailure_noAppend(recovered) == IF recovered THEN "done" ELSE "thrown"

afterGlobalFailure(recovered) == IF recovered THEN "append" ELSE "thrown"

\* After the global pre-hook: skip appends the skipped result and returns null.
afterGlobalPre(hooks, skip) ==
  IF skip THEN "gskip" ELSE IF hooks.tPre THEN "tpre" ELSE "handler"

\* Mutant: the handler is left out.
afterToolPre_skipsHandler(skip) == IF skip THEN "tskip" ELSE "append"

afterToolPre(skip) == IF skip THEN "tskip" ELSE "handler"

\* Mutant: the return after the skipped append is missing.
afterSkipAppend_fallsThrough == "handler"

\* return null after the skipped result was appended
afterSkipAppend == "skipped"

firstStep(hooks) ==
  IF hooks.gPre THEN "gpre" ELSE IF hooks.tPre THEN "tpre" ELSE "handler"

\* Mutant: the global post-hook is taken first and ends the pipeline.
afterAppend_globalFirst(hooks) ==
  IF hooks.gPost THEN "gpost" ELSE IF hooks.tPost THEN "tpost" ELSE "done"

\* After appendToolResult: per-tool onPostToolUse, then the global one.
afterAppend(hooks) ==
  IF hooks.tPost THEN "tpost" ELSE IF hooks.gPost THEN "gpost" ELSE "done"

afterToolPost(hooks) == IF hooks.gPost THEN "gpost" ELSE "done"

\* failureResult?.fallbackContent !== undefined, else failureResult?.suppress
FailureResults == {"none", "fallback", "suppress", "both"}
recovers(failureResult) == failureResult # "none"
\* Mutant: suppress is looked at before fallbackContent.
recoveredContent_suppressFirst(failureResult) ==
  IF failureResult \in {"suppress", "both"} THEN "suppressed" ELSE "fallback"

recoveredContent(failureResult) ==
  IF failureResult \in {"fallback", "both"} THEN "fallback" ELSE "suppressed"

\* What a hook may do to the state manager it closes over.
HookEffects == {"none", "waitForInput", "fail", "cancel"}
applyEffect(s, e) ==
  CASE e = "run" -> run(s)
    [] e = "waitForInput" -> waitForInput(s)
    [] e = "complete" -> complete(s)
    [] e = "fail" -> fail(s)
    [] e = "cancel" -> cancel(s)
    [] OTHER -> s

\* Mutant: the sequential loop does not await a call before the next one.
mayStep_noAwait(b, i, parallel) == b[i].pc \notin Finished

\* processToolCalls: Promise.all over the calls, or a loop awaiting each call.
mayStep(b, i, parallel) ==
  /\ b[i].pc \notin Finished
  /\ parallel \/ \A j \in 1..(i - 1) : b[j].pc \in {"done", "skipped"}

step(c, tag, next) == [c EXCEPT !.pc = next, !.trace = Append(@, tag)]

HookEffect(e) ==
  /\ e = "none" \/ hist.hookOps < MaxHookOps
  /\ sm' = applyEffect(sm, e)

noteHook(h, e) == IF e = "none" THEN h ELSE [h EXCEPT !.hookOps = @ + 1]
noteThrow(h, next, turns) ==
  IF next = "thrown" /\ h.failTurn = 0 THEN [h EXCEPT !.failTurn = turns] ELSE h

routerFrame == UNCHANGED <<objects, updTasks, nextId, ops, pc, exitReason, result,
                           sessionEnd, modelCalls, cfg, rawToolCalls, parseLog>>

GlobalPre ==
  \E i \in 1..Len(batch), skip \in BOOLEAN, e \in HookEffects :
    /\ mayStep(batch, i, cfg.parallel) /\ batch[i].pc = "gpre"
    /\ HookEffect(e)
    /\ batch' = [batch EXCEPT ![i] = step(@, "gpre", afterGlobalPre(cfg.hooks, skip))]
    /\ hist' = noteHook(hist, e)
    /\ UNCHANGED thread /\ routerFrame

ToolPre ==
  \E i \in 1..Len(batch), skip \in BOOLEAN, e \in HookEffects :
    /\ mayStep(batch, i, cfg.parallel) /\ batch[i].pc = "tpre"
    /\ HookEffect(e)
    /\ batch' = [batch EXCEPT ![i] = step(@, "tpre", afterToolPre(skip))]
    /\ hist' = noteHook(hist, e)
    /\ UNCHANGED thread /\ routerFrame

\* appendToolResult({skipped: true, ...}); return null
AppendSkipped ==
  \E i \in 1..Len(batch) :
    /\ mayStep(batch, i, cfg.parallel) /\ batch[i].pc \in {"gskip", "tskip"}
    /\ thread' = Append(thread, [toolCallId |-> batch[i].id, content |-> "skipped"])
    /\ batch' = [batch EXCEPT ![i] = step(@, "append_skipped", afterSkipAppend)]
    /\ UNCHANGED <<sm, hist>> /\ routerFrame

Handler ==
  \E i \in 1..Len(batch), throws \in BOOLEAN :
    /\ mayStep(batch, i, cfg.parallel) /\ batch[i].pc = "handler"
    /\ LET next == IF throws THEN afterHandlerThrow(cfg.hooks) ELSE "append"
       IN /\ batch' = [batch EXCEPT ![i] =
                         [step(@, "handler", next) EXCEPT
                            !.content = IF throws THEN @ ELSE "response"]]
          /\ hist' = noteThrow(hist, next, sm.turns)
    /\ UNCHANGED <<sm, thread>> /\ routerFrame

ToolFailure ==
  \E i \in 1..Len(batch), r \in FailureResults, e \in HookEffects :
    /\ mayStep(batch, i, cfg.parallel) /\ batch[i].pc = "tfail"
    /\ HookEffect(e)
    /\ LET next == afterToolFailure(cfg.hooks, recovers(r))
       IN /\ batch' = [batch EXCEPT ![i] =
                         [step(@, "tfail", next) EXCEPT
                            !.content = IF recovers(r) THEN recoveredContent(r) ELSE @,
                            !.failures = Append(@, r)]]
          /\ hist' = noteThrow(noteHook(hist, e), next, sm.turns)
    /\ UNCHANGED thread /\ routerFrame

GlobalFailure ==
  \E i \in 1..Len(batch), r \in FailureResults, e \in HookEffects :
    /\ mayStep(batch, i, cfg.parallel) /\ batch[i].pc = "gfail"
    /\ HookEffect(e)
    /\ LET next == afterGlobalFailure(recovers(r))
       IN /\ batch' = [batch EXCEPT ![i] =
                         [step(@, "gfail", next) EXCEPT
                            !.content = IF recovers(r) THEN recoveredContent(r) ELSE @,
                            !.failures = Append(@, r)]]
          /\ hist' = noteThrow(noteHook(hist, e), next, sm.turns)
    /\ UNCHANGED thread /\ routerFrame

\* appendToolResult({threadId, toolCallId: toolCall.id, content})
AppendResult ==
  \E i \in 1..Len(batch) :
    /\ mayStep(batch, i, cfg.parallel) /\ batch[i].pc = "append"
    /\ thread' = Append(thread, [toolCallId |-> batch[i].id, content |-> batch[i].content])
    /\ batch' = [batch EXCEPT ![i] = step(@, "append", afterAppend(cfg.hooks))]
    /\ UNCHANGED <<sm, hist>> /\ routerFrame

ToolPost ==
  \E i \in 1..Len(batch), e \in HookEffects :
    /\ mayStep(batch, i, cfg.parallel) /\ batch[i].pc = "tpost"
    /\ HookEffect(e)
    /\ batch' = [batch EXCEPT ![i] = step(@, "tpost", afterToolPost(cfg.hooks))]
    /\ hist' = noteHook(hist, e)
    /\ UNCHANGED thread /\ routerFrame

GlobalPost ==
  \E i \in 1..Len(batch), e \in HookEffects :
    /\ mayStep(batch, i, cfg.parallel) /\ batch[i].pc = "gpost"
    /\ HookEffect(e)
    /\ batch' = [batch EXCEPT ![i] = step(@, "gpost", "done")]
    /\ hist' = noteHook(hist, e)
    /\ UNCHANGED thread /\ routerFrame

-----------------------------------------------------------------------------
(* Tool Router, parsing: lib/tool-router.ts, parseToolCall *)

\* Names a raw tool call can carry: a user tool, the subagent tool, and a
\* name no configuration registers.
ToolNames == {"Read", "Task", "Nope"}

\* Arguments of a raw tool call: accepted as they are, accepted with a key the
\* schema strips, rejected by the schema.
RawArgs == {"ok", "extra", "bad"}

\* tool.schema.parse(args) throws (ZodError) or returns the validated value.
schemaAccepts(args) == args # "bad"
schemaParse(args) == IF args = "extra" THEN "ok" ELSE args

\* The empty string of: id: toolCall.id ?? ""
EmptyId == 0

\* RawToolCall.id is optional: <<>> when absent, <<id>> when supplied.
idOrEmpty(raw) == IF raw.id = <<>> THEN EmptyId ELSE raw.id[1]

\* The router's toolMap: the user tools, plus "Task" when subagents are given.
toolMap(c) == c.tools \cup (IF c.subagents THEN {"Task"} ELSE {})

hasTools(c) == toolMap(c) # {}

failure(kind, raw) ==
  [kind |-> kind, id |-> idOrEmpty(raw), name |-> raw.name, args |-> "none"]

\* Mutant: the arguments are not validated.
parseToolCall_noValidation(map, raw) ==
  IF raw.name \notin map THEN failure("UnknownTool", raw)
  ELSE [kind |-> "ok", id |-> idOrEmpty(raw), name |-> raw.name, args |-> raw.args]

\* Mutant: the raw arguments are returned, not the validated ones.
parseToolCall_rawArgs(map, raw) ==
  IF raw.name \notin map THEN failure("UnknownTool", raw)
  ELSE IF ~schemaAccepts(raw.args) THEN failure("InvalidArguments", raw)
  ELSE [kind |-> "ok", id |-> idOrEmpty(raw), name |-> raw.name, args |-> raw.args]

\* parseToolCall(toolCall): throws when the tool is not in toolMap or when the
\* schema rejects the arguments, else {id, name, args: parsedArgs}.
parseToolCall(map, raw) ==
  IF raw.name \notin map THEN failure("UnknownTool", raw)
  ELSE IF ~schemaAccepts(raw.args) THEN failure("InvalidArguments", raw)
  ELSE [kind |-> "ok", id |-> idOrEmpty(raw), name |-> raw.name,
        args |-> schemaParse(raw.args)]

-----------------------------------------------------------------------------
(* Session: lib/session.ts, runSession *)

\* Numbers of raw tool calls in one model response.
BatchSizes == {0, 1, 2}
MaxCalls == Cardinality(BatchSizes) - 1
StopReasons == {"end_turn", "tool_use"}

\* Ids the model gives the raw calls of the response of a turn.
callId(turn, i) == (turn - 1) * MaxCalls + i

\* Name and arguments of the raw calls of a model response.
ResponseCalls ==
  {[name |-> "Read", args |-> "ok"], [name |-> "Read", args |-> "bad"],
   [name |-> "Task", args |-> "ok"], [name |-> "Task", args |-> "bad"],
   [name |-> "Nope", args |-> "ok"]}

\* The raw tool calls parseToolCalls(message) extracts in a turn.
RawBatches(turn) ==
  UNION {{[i \in 1..n |-> [name |-> f[i].name, args |-> f[i].args,
                           id |-> <<callId(turn, i)>>]] :
            f \in [1..n -> ResponseCalls]} : n \in BatchSizes}

\* createTaskTool(subagents).schema.parse(tc.args), then {id, name, args}
parseTaskCall(raw) ==
  IF ~schemaAccepts(raw.args) THEN failure("InvalidArguments", raw)
  ELSE [kind |-> "ok", id |-> idOrEmpty(raw), name |-> raw.name,
        args |-> schemaParse(raw.args)]

\* What runSession does with one raw call: calls other than "Task" go to
\* parseToolCall; "Task" calls are parsed only when subagents are configured,
\* and are otherwise left out, without a result.
sessionParse(c, raw) ==
  IF raw.name # "Task" THEN parseToolCall(toolMap(c), raw)
  ELSE IF c.subagents THEN parseTaskCall(raw)
  ELSE failure("dropped", raw)

isTask(raw) == raw.name = "Task"
notTask(raw) == raw.name # "Task"

newCall(p, turn, hooks) ==
  [id |-> p.id, args |-> p.args, turn |-> turn, pc |-> firstStep(hooks),
   trace |-> <<>>, content |-> "none", failures |-> <<>>]

\* The calls pushed by one of the two parse loops, in the order of the raw calls.
RECURSIVE parsedOf(_, _, _, _)
parsedOf(c, raws, turn, hooks) ==
  IF raws = <<>> THEN <<>>
  ELSE LET p == sessionParse(c, Head(raws))
           rest == parsedOf(c, Tail(raws), turn, hooks)
       IN IF p.kind = "ok" THEN <<newCall(p, turn, hooks)>> \o rest ELSE rest

\* The inline error results appended by one of the two parse loops.
RECURSIVE errorsOf(_, _)
errorsOf(c, raws) ==
  IF raws = <<>> THEN <<>>
  ELSE LET p == sessionParse(c, Head(raws))
           rest == errorsOf(c, Tail(raws))
       IN IF p.kind \in {"UnknownTool", "InvalidArguments"}
            THEN <<[toolCallId |-> idOrEmpty(Head(raws)), content |-> "invalid"]>> \o rest
            ELSE rest

\* [...parsedToolCalls, ...taskToolCalls]
parsedCalls(c, raws, turn, hooks) ==
  parsedOf(c, SelectSeq(raws, notTask), turn, hooks)
    \o parsedOf(c, SelectSeq(raws, isTask), turn, hooks)

\* The error results of the first loop, then those of the "Task" loop.
parseErrors(c, raws) ==
  errorsOf(c, SelectSeq(raws, notTask)) \o errorsOf(c, SelectSeq(raws, isTask))

\* Ids of the raw calls of a response that name a registered tool and whose
\* arguments its schema rejects.
rejectedIds(c, raws) ==
  {idOrEmpty(raws[k]) :
     k \in {j \in 1..Len(raws) :
              raws[j].name \in toolMap(c) /\ ~schemaAccepts(raws[j].args)}}

-----------------------------------------------------------------------------
(* SpecParse: parseToolCall and the parse loops of runSession on raw calls *)

MaxRaw == 2        \* raw calls handed to parseToolCall
RawIds == {<<>>} \cup {<<i>> : i \in 1..MaxRaw}
RawToolCall == [name : ToolNames, args : RawArgs, id : RawIds]
RawInputs == UNION {[1..n -> RawToolCall] : n \in 1..MaxRaw}

ToolConfigs == [tools : SUBSET {"Read"}, subagents : BOOLEAN]

InitParse ==
  /\ \E t \in ToolConfigs :
       cfg = [parallel |-> FALSE, maxTurns |-> MaxTurns, tools |-> t.tools,
              subagents |-> t.subagents, hooks |-> NoHooks]
  /\ sm = InitialSM({})
  /\ updTasks = {}
  /\ objects = [i \in TaskIds |-> NoTask]
  /\ nextId = 1
  /\ ops = 0
  /\ pc = "idle"
  /\ exitReason = "completed"
  /\ result = [kind |-> "none", turn |-> 0]
  /\ batch = <<>>
  /\ thread = <<>>
  /\ sessionEnd = <<>>
  /\ modelCalls = 0
  /\ rawToolCalls \in RawInputs
  /\ parseLog = <<>>
  /\ hist = [endTurnAt |-> 0, endTurnCalls |-> 0, failTurn |-> 0,
             thrownBy |-> "none", hookOps |-> 0, rejected |-> {}, rawCalls |-> 0]

\* toolRouter.parseToolCall(rawToolCalls[k]) for the next k
ParseToolCall ==
  /\ Len(parseLog) < Len(rawToolCalls)
  /\ parseLog' = Append(parseLog,
                        parseToolCall(toolMap(cfg), rawToolCalls[Len(parseLog) + 1]))
  /\ UNCHANGED <<smVars, pc, exitReason, result, batch, thread, sessionEnd,
                 modelCalls, cfg, rawToolCalls, hist>>

\* The two parse loops of runSession on the raw calls of one response.
SessionParse ==
  /\ pc = "idle" /\ hasTools(cfg)
  /\ batch' = parsedCalls(cfg, rawToolCalls, 1, cfg.hooks)
  /\ thread' = parseErrors(cfg, rawToolCalls)
  /\ pc' = "process"
  /\ UNCHANGED <<smVars, exitReason, result, sessionEnd, modelCalls, cfg,
                 rawToolCalls, parseLog, hist>>

NextParse == ParseToolCall \/ SessionParse

SpecParse == InitParse /\ [][NextParse]_vars

-----------------------------------------------------------------------------
(* The turn loop *)

\* Mutant: the loop only tests the turn budget.
loopCondition_ignoresStatus(s, maxTurns) == getTurns(s) < maxTurns

\* Mutant: the budget test is off by one.
loopCondition_offByOne(s, maxTurns) ==
  isRunning(s) /\ ~isTerminal(s) /\ getTurns(s) <= maxTurns

\* while (isRunning() && !isTerminal() && getTurns() < maxTurns)
loopCondition(s, maxTurns) ==
  isRunning(s) /\ ~isTerminal(s) /\ getTurns(s) < maxTurns

\* if (getTurns() >= maxTurns && isRunning()) exitReason = "max_turns"
afterLoopReason(s, maxTurns, reason) ==
  IF getTurns(s) >= maxTurns /\ isRunning(s) THEN "max_turns" ELSE reason

\* Mutant: the stop reason is not looked at.
returnsMessage_ignoresStop(stopReason, toolsGiven) == ~toolsGiven

\* stopReason === "end_turn", or no tools are configured
returnsMessage(stopReason, toolsGiven) == stopReason = "end_turn" \/ ~toolsGiven

noteResponse(h, stopReason, turn, n) ==
  IF stopReason = "end_turn" /\ h.endTurnAt = 0
    THEN [h EXCEPT !.endTurnAt = turn, !.endTurnCalls = n]
    ELSE h

\* Mutant: the catch block leaves exitReason at its initial value.
catchReason_unset == "completed"

\* catch (error) { exitReason = "failed"; throw error; }
catchReason == "failed"

\* callSessionEnd(exitReason, stateManager.getTurns()); status is recorded
\* for the properties only.
callSessionEnd(log, reason, s) ==
  Append(log, [exitReason |-> reason, turns |-> getTurns(s), status |-> getStatus(s)])

\* router.getToolDefinitions() as stored by setTools
toolDefinitions(map) ==
  (IF "Read" \in map THEN <<"Read">> ELSE <<>>)
    \o (IF "Task" \in map THEN <<"Task">> ELSE <<>>)

\* options.hooks given or not, the tool's hooks given or not.
HookConfigs ==
  {[gPre |-> g, tPre |-> t, gFail |-> g, tFail |-> t, gPost |-> g, tPost |-> t] :
     g \in BOOLEAN, t \in BOOLEAN}

Init ==
  /\ sm = InitialSM({})
  /\ updTasks = {}
  /\ objects = [i \in TaskIds |-> NoTask]
  /\ nextId = 1
  /\ ops = 0
  /\ cfg \in [parallel : BOOLEAN, maxTurns : {MaxTurns}, tools : SUBSET {"Read"},
              subagents : BOOLEAN, hooks : HookConfigs]
  /\ SessionIdle

sessionFrame == UNCHANGED <<objects, updTasks, nextId, ops, cfg, rawToolCalls, parseLog>>

\* hooks.onSessionStart, then stateManager.setTools(...)
SessionStart ==
  /\ pc = "idle"
  /\ \E throws \in BOOLEAN :
       IF throws
         THEN /\ pc' = "thrown"
              /\ result' = [kind |-> "error", turn |-> 0]
              /\ hist' = [hist EXCEPT !.thrownBy = "setup"]
              /\ UNCHANGED sm
         ELSE /\ pc' = "initThread"
              /\ sm' = setTools(sm, toolDefinitions(toolMap(cfg)))
              /\ UNCHANGED <<result, hist>>
  /\ UNCHANGED <<exitReason, batch, thread, sessionEnd, modelCalls>>
  /\ sessionFrame

\* initializeThread, appendSystemMessage, appendHumanMessage
InitThread ==
  /\ pc = "initThread"
  /\ \E throws \in BOOLEAN :
       IF throws
         THEN /\ pc' = "thrown"
              /\ result' = [kind |-> "error", turn |-> 0]
              /\ hist' = [hist EXCEPT !.thrownBy = "setup"]
         ELSE /\ pc' = "loop"
              /\ UNCHANGED <<result, hist>>
  /\ UNCHANGED <<sm, exitReason, batch, thread, sessionEnd, modelCalls>>
  /\ sessionFrame

\* The loop test, then incrementTurns() and the call of runAgent, which are
\* made without an await between them; on exit the max_turns check after the
\* loop.
LoopCheck ==
  /\ pc = "loop"
  /\ IF loopCondition(sm, cfg.maxTurns)
       THEN /\ sm' = incrementTurns(sm)
            /\ modelCalls' = modelCalls + 1
            /\ pc' = "runAgent"
            /\ UNCHANGED <<exitReason, result>>
       ELSE /\ exitReason' = afterLoopReason(sm, cfg.maxTurns, exitReason)
            /\ result' = [kind |-> "null", turn |-> 0]
            /\ pc' = "finally"
            /\ UNCHANGED <<sm, modelCalls>>
  /\ UNCHANGED <<batch, thread, sessionEnd, hist>>
  /\ sessionFrame

\* The call of runAgent settles: its rejection, or the handling of its
\* response up to the call of processToolCalls.
RunAgent ==
  /\ pc = "runAgent"
  /\ UNCHANGED modelCalls
  /\ \E throws \in BOOLEAN, stopReason \in StopReasons, raw \in RawBatches(sm.turns) :
       IF throws
         THEN /\ exitReason' = catchReason
              /\ result' = [kind |-> "error", turn |-> sm.turns]
              /\ pc' = "finally"
              /\ hist' = [hist EXCEPT !.thrownBy = "model", !.failTurn = sm.turns]
              /\ UNCHANGED <<sm, batch, thread>>
         ELSE IF returnsMessage(stopReason, hasTools(cfg))
           THEN /\ sm' = complete(sm)
                /\ exitReason' = "completed"
                /\ result' = [kind |-> "message", turn |-> sm.turns]
                /\ pc' = "finally"
                /\ hist' = noteResponse(hist, stopReason, sm.turns, Len(raw))
                /\ UNCHANGED <<batch, thread>>
           ELSE /\ batch' = parsedCalls(cfg, raw, sm.turns, cfg.hooks)
                /\ thread' = parseErrors(cfg, raw)
                /\ pc' = "process"
                /\ hist' = [noteResponse(hist, stopReason, sm.turns, Len(raw))
                              EXCEPT !.rejected = rejectedIds(cfg, raw),
                                     !.rawCalls = Len(raw)]
                /\ UNCHANGED <<sm, exitReason, result>>
  /\ UNCHANGED sessionEnd
  /\ sessionFrame

\* Mutant: processToolCalls does not return on an empty array.
batchResolved_needsCall(b) ==
  b # <<>> /\ \A i \in 1..Len(b) : b[i].pc \in {"done", "skipped"}

\* processToolCalls returns: at once on an empty array, else when every call
\* has returned (a result, or null for a skipped call).
batchResolved(b) == \A i \in 1..Len(b) : b[i].pc \in {"done", "skipped"}

\* Mutant: the null of a skipped call is not filtered out.
results_keepsSkipped(b) == b

\* The array processToolCalls returns: the results that are not null.
results(b) == SelectSeq(b, LAMBDA c : c.pc = "done")

\* Mutant: the status is not looked at after processToolCalls.
breaksForInput_never(s) == FALSE

\* if (stateManager.getStatus() === "WAITING_FOR_INPUT") { ...; break; }
breaksForInput(s) == getStatus(s) = "WAITING_FOR_INPUT"

\* processToolCalls resolved: the WAITING_FOR_INPUT check, else the next turn.
BatchDone ==
  /\ pc = "process"
  /\ batchResolved(batch)
  /\ IF breaksForInput(sm)
       THEN /\ exitReason' = afterLoopReason(sm, cfg.maxTurns, "waiting_for_input")
            /\ result' = [kind |-> "null", turn |-> 0]
            /\ pc' = "finally"
       ELSE /\ pc' = "loop"
            /\ UNCHANGED <<exitReason, result>>
  /\ UNCHANGED <<sm, batch, thread, sessionEnd, modelCalls, hist>>
  /\ sessionFrame

\* processToolCalls rejected: the catch block.
BatchThrow ==
  /\ pc = "process"
  /\ \E i \in 1..Len(batch) : batch[i].pc = "thrown"
  /\ exitReason' = catchReason
  /\ result' = [kind |-> "error", turn |-> sm.turns]
  /\ pc' = "finally"
  /\ hist' = [hist EXCEPT !.thrownBy = "handler"]
  /\ UNCHANGED <<sm, batch, thread, sessionEnd, modelCalls>>
  /\ sessionFrame

\* finally { await callSessionEnd(exitReason, stateManager.getTurns()); }
Finally ==
  /\ pc = "finally"
  /\ sessionEnd' = callSessionEnd(sessionEnd, exitReason, sm)
  /\ pc' = IF result.kind = "error" THEN "thrown" ELSE "returned"
  /\ UNCHANGED <<sm, exitReason, result, batch, thread, modelCalls, hist>>
  /\ sessionFrame

Next ==
  \/ SessionStart \/ InitThread \/ LoopCheck \/ RunAgent
  \/ BatchDone \/ BatchThrow \/ Finally
  \/ GlobalPre \/ ToolPre \/ AppendSkipped \/ Handler
  \/ ToolFailure \/ GlobalFailure \/ AppendResult \/ ToolPost \/ GlobalPost

Spec == Init /\ [][Next]_vars

-----------------------------------------------------------------------------
(* Subagent dispatch: tools/task/handler.ts, createTaskHandler, and the     *)
(* Task entry of the tool map in lib/tool-router.ts, under a direct         *)
(* toolRouter.processToolCalls([call]) for one Task call                    *)

SubagentNames == {"researcher", "writer"}
\* A name that no subagent configuration carries.
Unconfigured == "ghost"
TaskSubagents == SubagentNames \cup {Unconfigured}

\* What executeChild resolves to: a result the result schema accepts, one it
\* rejects, or a rejection of the child workflow.
ChildResults == {"conforming", "other", "failure"}

\* Mutant: the child workflow is started before the configuration is looked up.
taskHandler_startsChildFirst(c, subagent, childResult) ==
  IF childResult = "failure"
    THEN [error |-> "ChildWorkflowFailure", children |-> 1]
  ELSE IF subagent \notin c.subagentNames
    THEN [error |-> "SubagentNotConfigured", children |-> 1]
  ELSE IF subagent \in c.resultSchemas /\ childResult = "other"
    THEN [error |-> "SubagentResultSchemaMismatch", children |-> 1]
  ELSE [error |-> "none", children |-> 1]

\* subagents.find(...); if (!config) throw; executeChild(...);
\* config.resultSchema ? config.resultSchema.parse(childResult) : childResult
taskHandler(c, subagent, childResult) ==
  IF subagent \notin c.subagentNames
    THEN [error |-> "SubagentNotConfigured", children |-> 0]
  ELSE IF childResult = "failure"
    THEN [error |-> "ChildWorkflowFailure", children |-> 1]
  ELSE IF subagent \in c.resultSchemas /\ childResult = "other"
    THEN [error |-> "SubagentResultSchemaMismatch", children |-> 1]
  ELSE [error |-> "none", children |-> 1]

\* subagentHooksMap.get(resolveSubagentName(ctx.args)) is defined
subagentHooked(c, subagent) == subagent \in c.subagentHooks

\* subagentHooksMap.size > 0: the Task tool carries the three dispatching hooks
taskToolHooks(d) == d.subagentHooks # {}

\* options.subagents: the configured names (at least one), those with hooks
\* and those with a resultSchema.
DispatchConfigs ==
  {d \in [subagentNames : SUBSET SubagentNames, subagentHooks : SUBSET SubagentNames,
          resultSchemas : SUBSET SubagentNames] :
     /\ d.subagentNames # {}
     /\ d.subagentHooks \subseteq d.subagentNames
     /\ d.resultSchemas \subseteq d.subagentNames}

dispatchHooks(d, gPre, gFail, gPost) ==
  [gPre |-> gPre, tPre |-> taskToolHooks(d), gFail |-> gFail,
   tFail |-> taskToolHooks(d), gPost |-> gPost, tPost |-> taskToolHooks(d)]

taskCall(subagent, hooks) ==
  [id |-> 1, args |-> "ok", turn |-> 1, pc |-> firstStep(hooks), trace |-> <<>>,
   content |-> "none", failures |-> <<>>, subagent |-> subagent,
   error |-> "none", children |-> 0]

InitDispatch ==
  /\ \E d \in DispatchConfigs, gPre \in BOOLEAN, gFail \in BOOLEAN, gPost \in BOOLEAN :
       /\ cfg = [parallel |-> FALSE, maxTurns |-> MaxTurns, tools |-> {},
                 subagents |-> TRUE, hooks |-> dispatchHooks(d, gPre, gFail, gPost),
                 subagentNames |-> d.subagentNames,
                 subagentHooks |-> d.subagentHooks,
                 resultSchemas |-> d.resultSchemas]
       /\ \E subagent \in TaskSubagents : batch = <<taskCall(subagent, cfg.hooks)>>
  /\ sm = InitialSM({})
  /\ updTasks = {}
  /\ objects = [i \in TaskIds |-> NoTask]
  /\ nextId = 1
  /\ ops = 0
  /\ pc = "tools"
  /\ exitReason = "completed"
  /\ result = [kind |-> "none", turn |-> 0]
  /\ thread = <<>>
  /\ sessionEnd = <<>>
  /\ modelCalls = 0
  /\ rawToolCalls = <<>>
  /\ parseLog = <<>>
  /\ hist = [endTurnAt |-> 0, endTurnCalls |-> 0, failTurn |-> 0,
             thrownBy |-> "none", hookOps |-> 0, rejected |-> {}, rawCalls |-> 0]

\* Task hooks.onPreToolUse: hooks?.onPreExecution?.(ctx) ?? {}
TaskPre ==
  \E i \in 1..Len(batch), skip \in BOOLEAN, e \in HookEffects :
    /\ mayStep(batch, i, cfg.parallel) /\ batch[i].pc = "tpre"
    /\ subagentHooked(cfg, batch[i].subagent) \/ (~skip /\ e = "none")
    /\ HookEffect(e)
    /\ batch' = [batch EXCEPT ![i] = step(@, "tpre", afterToolPre(skip))]
    /\ hist' = noteHook(hist, e)
    /\ UNCHANGED thread /\ routerFrame

TaskHandler ==
  \E i \in 1..Len(batch), childResult \in ChildResults :
    /\ mayStep(batch, i, cfg.parallel) /\ batch[i].pc = "handler"
    /\ LET out == taskHandler(cfg, batch[i].subagent, childResult)
           next == IF out.error # "none" THEN afterHandlerThrow(cfg.hooks) ELSE "append"
       IN /\ batch' = [batch EXCEPT ![i] =
                         [step(@, "handler", next) EXCEPT
                            !.content = IF out.error # "none" THEN @ ELSE "response",
                            !.error = out.error,
                            !.children = out.children]]
          /\ hist' = noteThrow(hist, next, sm.turns)
    /\ UNCHANGED <<sm, thread>> /\ routerFrame

\* Task hooks.onPostToolUseFailure: hooks?.onExecutionFailure?.(ctx) ?? {}
TaskFailure ==
  \E i \in 1..Len(batch), r \in FailureResults, e \in HookEffects :
    /\ mayStep(batch, i, cfg.parallel) /\ batch[i].pc = "tfail"
    /\ subagentHooked(cfg, batch[i].subagent) \/ (r = "none" /\ e = "none")
    /\ HookEffect(e)
    /\ LET next == afterToolFailure(cfg.hooks, recovers(r))
       IN /\ batch' = [batch EXCEPT ![i] =
                         [step(@, "tfail", next) EXCEPT
                            !.content = IF recovers(r) THEN recoveredContent(r) ELSE @,
                            !.failures = Append(@, r)]]
          /\ hist' = noteThrow(noteHook(hist, e), next, sm.turns)
    /\ UNCHANGED thread /\ routerFrame

\* Task hooks.onPostToolUse: await hooks?.onPostExecution?.(ctx)
TaskPost ==
  \E i \in 1..Len(batch), e \in HookEffects :
    /\ mayStep(batch, i, cfg.parallel) /\ batch[i].pc = "tpost"
    /\ subagentHooked(cfg, batch[i].subagent) \/ e = "none"
    /\ HookEffect(e)
    /\ batch' = [batch EXCEPT ![i] = step(@, "tpost", afterToolPost(cfg.hooks))]
    /\ hist' = noteHook(hist, e)
    /\ UNCHANGED thread /\ routerFrame

NextDispatch ==
  \/ GlobalPre \/ TaskPre \/ AppendSkipped \/ TaskHandler
  \/ TaskFailure \/ GlobalFailure \/ AppendResult \/ TaskPost \/ GlobalPost

SpecDispatch == InitDispatch /\ [][NextDispatch]_vars

-----------------------------------------------------------------------------
(* The arguments along the pipeline: lib/tool-router.ts, processToolCall    *)
(* and the Task entry of the tool map, under a direct                       *)
(* toolRouter.processToolCalls([call]) for one call of a user tool or of    *)
(* the Task tool                                                            *)

\* Argument objects, told apart by the field the Task tool reads.
Args == [subagent : SubagentNames]
\* preResult?.modifiedArgs is undefined
NoArgs == [subagent |-> "undefined"]
ModifiedArgs == Args \cup {NoArgs}

\* Mutant: a modification is dropped.
replaceArgs_never(effectiveArgs, modifiedArgs) == effectiveArgs

\* if (preResult?.modifiedArgs !== undefined) effectiveArgs = preResult.modifiedArgs
replaceArgs(effectiveArgs, modifiedArgs) ==
  IF modifiedArgs # NoArgs THEN modifiedArgs ELSE effectiveArgs

\* (args as GenericTaskToolSchemaType).subagent
resolveSubagentName(args) == args.subagent

\* Whose hooks a per-tool hook of the call runs: the tool's own for a user
\* tool; for Task those subagentHooksMap.get(resolveSubagentName(ctx.args))
\* finds, "none" when the map has no entry and the hook returns {}.
hookOwner(c, name, ctxArgs) ==
  IF name # "Task" THEN "tool"
  ELSE IF subagentHooked(c, resolveSubagentName(ctxArgs))
    THEN resolveSubagentName(ctxArgs)
  ELSE "none"

\* What a hook or the handler was called with.
sees(c, stage, ctxArgs, owner) ==
  [c EXCEPT !.seen = Append(@, [stage |-> stage, args |-> ctxArgs, owner |-> owner])]

argsCall(name, args, hooks) ==
  [id |-> 1, name |-> name, args |-> args, effectiveArgs |-> args, turn |-> 1,
   pc |-> firstStep(hooks), trace |-> <<>>, seen |-> <<>>, content |-> "none",
   failures |-> <<>>, gMod |-> NoArgs, tMod |-> NoArgs]

InitArgs ==
  /\ \/ \E hooks \in HookConfigs, args \in Args :
          /\ cfg = [parallel |-> FALSE, maxTurns |-> MaxTurns, tools |-> {"Read"},
                    subagents |-> FALSE, hooks |-> hooks,
                    subagentNames |-> {}, subagentHooks |-> {}, resultSchemas |-> {}]
          /\ batch = <<argsCall("Read", args, hooks)>>
     \/ \E d \in DispatchConfigs, g \in BOOLEAN, args \in Args :
          /\ d.subagentNames = SubagentNames /\ d.resultSchemas = {}
          /\ cfg = [parallel |-> FALSE, maxTurns |-> MaxTurns, tools |-> {},
                    subagents |-> TRUE, hooks |-> dispatchHooks(d, g, g, g),
                    subagentNames |-> d.subagentNames,
                    subagentHooks |-> d.subagentHooks,
                    resultSchemas |-> d.resultSchemas]
          /\ batch = <<argsCall("Task", args, cfg.hooks)>>
  /\ sm = InitialSM({})
  /\ updTasks = {}
  /\ objects = [i \in TaskIds |-> NoTask]
  /\ nextId = 1
  /\ ops = 0
  /\ pc = "tools"
  /\ exitReason = "completed"
  /\ result = [kind |-> "none", turn |-> 0]
  /\ thread = <<>>
  /\ sessionEnd = <<>>
  /\ modelCalls = 0
  /\ rawToolCalls = <<>>
  /\ parseLog = <<>>
  /\ hist = [endTurnAt |-> 0, endTurnCalls |-> 0, failTurn |-> 0,
             thrownBy |-> "none", hookOps |-> 0, rejected |-> {}, rawCalls |-> 0]

argsFrame == UNCHANGED <<sm, thread, hist>> /\ routerFrame

\* options.hooks.onPreToolUse({toolCall, threadId, turn})
GlobalPreArgs ==
  \E i \in 1..Len(batch), skip \in BOOLEAN, modifiedArgs \in ModifiedArgs :
    /\ mayStep(batch, i, cfg.parallel) /\ batch[i].pc = "gpre"
    /\ batch' = [batch EXCEPT ![i] =
         [sees(step(@, "gpre", afterGlobalPre(cfg.hooks, skip)), "gpre", @.args, "global")
            EXCEPT !.gMod = IF skip THEN @ ELSE modifiedArgs,
                   !.effectiveArgs = IF skip THEN @ ELSE replaceArgs(@, modifiedArgs)]]
    /\ argsFrame

\* toolHooks.onPreToolUse({args: effectiveArgs, threadId, turn})
ToolPreArgs ==
  \E i \in 1..Len(batch), skip \in BOOLEAN, modifiedArgs \in ModifiedArgs :
    /\ mayStep(batch, i, cfg.parallel) /\ batch[i].pc = "tpre"
    /\ LET owner == hookOwner(cfg, batch[i].name, batch[i].effectiveArgs)
       IN /\ owner # "none" \/ (~skip /\ modifiedArgs = NoArgs)
          /\ batch' = [batch EXCEPT ![i] =
               [sees(step(@, "tpre", afterToolPre(skip)), "tpre", @.effectiveArgs, owner)
                  EXCEPT !.tMod = IF skip THEN @ ELSE modifiedArgs,
                         !.effectiveArgs = IF skip THEN @ ELSE replaceArgs(@, modifiedArgs)]]
    /\ argsFrame

\* tool.handler(effectiveArgs, handlerContext ?? {})
HandlerArgs ==
  \E i \in 1..Len(batch), throws \in BOOLEAN :
    /\ mayStep(batch, i, cfg.parallel) /\ batch[i].pc = "handler"
    /\ LET next == IF throws THEN afterHandlerThrow(cfg.hooks) ELSE "append"
       IN batch' = [batch EXCEPT ![i] =
            [sees(step(@, "handler", next), "handler", @.effectiveArgs,
                  IF @.name = "Task" THEN resolveSubagentName(@.effectiveArgs) ELSE "tool")
               EXCEPT !.content = IF throws THEN @ ELSE "response"]]
    /\ argsFrame

\* toolHooks.onPostToolUseFailure({args: effectiveArgs, error, threadId, turn})
ToolFailureArgs ==
  \E i \in 1..Len(batch), r \in FailureResults :
    /\ mayStep(batch, i, cfg.parallel) /\ batch[i].pc = "tfail"
    /\ LET owner == hookOwner(cfg, batch[i].name, batch[i].effectiveArgs)
       IN /\ owner # "none" \/ r = "none"
          /\ batch' = [batch EXCEPT ![i] =
               [sees(step(@, "tfail", afterToolFailure(cfg.hooks, recovers(r))),
                     "tfail", @.effectiveArgs, owner)
                  EXCEPT !.content = IF recovers(r) THEN recoveredContent(r) ELSE @,
                         !.failures = Append(@, r)]]
    /\ argsFrame

\* options.hooks.onPostToolUseFailure({toolCall, error, threadId, turn})
GlobalFailureArgs ==
  \E i \in 1..Len(batch), r \in FailureResults :
    /\ mayStep(batch, i, cfg.parallel) /\ batch[i].pc = "gfail"
    /\ batch' = [batch EXCEPT ![i] =
         [sees(step(@, "gfail", afterGlobalFailure(recovers(r))), "gfail", @.args, "global")
            EXCEPT !.content = IF recovers(r) THEN recoveredContent(r) ELSE @,
                   !.failures = Append(@, r)]]
    /\ argsFrame

\* toolHooks.onPostToolUse({args: effectiveArgs, result, threadId, turn, durationMs})
ToolPostArgs ==
  \E i \in 1..Len(batch) :
    /\ mayStep(batch, i, cfg.parallel) /\ batch[i].pc = "tpost"
    /\ batch' = [batch EXCEPT ![i] =
         sees(step(@, "tpost", afterToolPost(cfg.hooks)), "tpost", @.effectiveArgs,
              hookOwner(cfg, @.name, @.effectiveArgs))]
    /\ argsFrame

\* options.hooks.onPostToolUse({toolCall, result: toolResult, ...})
GlobalPostArgs ==
  \E i \in 1..Len(batch) :
    /\ mayStep(batch, i, cfg.parallel) /\ batch[i].pc = "gpost"
    /\ batch' = [batch EXCEPT ![i] =
         sees(step(@, "gpost", "done"), "gpost", @.args, "global")]
    /\ argsFrame

NextArgs ==
  \/ GlobalPreArgs \/ ToolPreArgs \/ AppendSkipped \/ HandlerArgs
  \/ ToolFailureArgs \/ GlobalFailureArgs \/ AppendResult
  \/ ToolPostArgs \/ GlobalPostArgs

SpecArgs == InitArgs /\ [][NextArgs]_vars

-----------------------------------------------------------------------------
(* What processToolCalls returns: lib/tool-router.ts, processToolCalls,     *)
(* called directly with an array of parsed calls, with hooks that leave the *)
(* state manager alone                                                      *)

CallNames == {"Read", "Task"}

\* The arrays of parsed calls given to processToolCalls.
CallArrays(hooks) ==
  UNION {{[i \in 1..n |->
             [id |-> callId(1, i), name |-> f[i], args |-> "ok", turn |-> 1,
              pc |-> firstStep(hooks), trace |-> <<>>, content |-> "none",
              failures |-> <<>>]] :
            f \in [1..n -> CallNames]} : n \in BatchSizes}

\* const toolResult = {toolCallId: toolCall.id, name: toolCall.name, data: result}
toolResult(c) == [toolCallId |-> c.id, name |-> c.name]

\* The value processToolCalls resolves to.
processToolCalls(b) ==
  [k \in 1..Len(results(b)) |-> toolResult(results(b)[k])]

InitCalls ==
  /\ cfg \in [parallel : BOOLEAN, maxTurns : {MaxTurns}, tools : {{"Read"}},
               subagents : {TRUE}, hooks : HookConfigs]
  /\ batch \in CallArrays(cfg.hooks)
  /\ sm = InitialSM({})
  /\ updTasks = {}
  /\ objects = [i \in TaskIds |-> NoTask]
  /\ nextId = 1
  /\ ops = 0
  /\ pc = "tools"
  /\ exitReason = "completed"
  /\ result = [kind |-> "none", turn |-> 0]
  /\ thread = <<>>
  /\ sessionEnd = <<>>
  /\ modelCalls = 0
  /\ rawToolCalls = <<>>
  /\ parseLog = <<>>
  /\ hist = [endTurnAt |-> 0, endTurnCalls |-> 0, failTurn |-> 0,
             thrownBy |-> "none", hookOps |-> MaxHookOps, rejected |-> {},
             rawCalls |-> 0]

callsFrame == UNCHANGED <<smVars, exitReason, batch, thread, sessionEnd, modelCalls,
                          cfg, rawToolCalls, parseLog, hist>>

\* processToolCalls resolves: [] for an empty array, else the results of the
\* calls that were not skipped.
ReturnResults ==
  /\ pc = "tools"
  /\ batchResolved(batch)
  /\ result' = [kind |-> "results", list |-> processToolCalls(batch)]
  /\ pc' = "returned"
  /\ callsFrame

\* processToolCalls rejects with the error of a call that was not recovered.
RejectResults ==
  /\ pc = "tools"
  /\ \E i \in 1..Len(batch) : batch[i].pc = "thrown"
  /\ result' = [kind |-> "error", turn |-> 1]
  /\ pc' = "thrown"
  /\ callsFrame

NextCalls ==
  \/ GlobalPre \/ ToolPre \/ AppendSkipped \/ Handler
  \/ ToolFailure \/ GlobalFailure \/ AppendResult \/ ToolPost \/ GlobalPost
  \/ ReturnResults \/ RejectResults

SpecCalls == InitCalls /\ [][NextCalls]_vars

-----------------------------------------------------------------------------
(* Properties *)

\* AgentState as a client sees it, the version aside.
AgentStateView ==
  <<sm.status, sm.turns, sm.tools, sm.custom, [i \in sm.tasks |-> objects[i]]>>

\* C1: every state manager operation that changes a part of AgentState
\* (status, turns, tools, tasks, a custom field) leaves version strictly
\* greater than before.
C1_VersionIncreasesOnMutation ==
  [][AgentStateView' # AgentStateView => sm'.version > sm.version]_vars

\* C2: in every reachable state of the task graph, for all tasks A and B,
\* A.blockedBy contains B if and only if B.blocks contains A.
C2_RelationBidirectional ==
  \A a \in sm.tasks, b \in sm.tasks :
    includes(objects[a].blockedBy, b) <=> includes(objects[b].blocks, a)

SessionOver == pc \in {"returned", "thrown"}

\* C3: whenever runSession is over, by return or by an exception raised at
\* any point, onSessionEnd has been invoked exactly once.
C3_SessionEndExactlyOnce == SessionOver => Len(sessionEnd) = 1

\* The case of C4: the model never returned end_turn, tools are registered
\* and no hook changed the status.
C4_Case == hist.endTurnAt = 0 /\ hasTools(cfg) /\ hist.hookOps = 0

SomeCallThrew == \E i \in 1..Len(batch) : batch[i].pc = "thrown"

\* C5: when a handler throws and no failure hook recovers it, the exception
\* propagates out of runSession, and onSessionEnd is still invoked, once, with
\* exit reason failed and the turn counter reached at the failure.
C5_HandlerFailurePropagates ==
  SomeCallThrew =>
     /\ pc \in {"process", "finally", "thrown"}
     /\ pc = "finally" => exitReason = "failed" /\ result.kind = "error"
     /\ pc = "thrown" =>
          /\ result.kind = "error"
          /\ sessionEnd = <<[exitReason |-> "failed", turns |-> hist.failTurn,
                             status |-> sessionEnd[1].status]>>
          /\ hist.failTurn = sm.turns

C5_Witness ==
  /\ SomeCallThrew /\ pc = "thrown"
  /\ hist.failTurn = 2
  /\ sessionEnd[1].turns = 2

\* C6: when a session ended with exit reason failed, the AgentState reported
\* afterwards has status FAILED.
C6_FailedStatusAfterFailure ==
  (pc = "thrown" /\ sessionEnd # <<>> /\ sessionEnd[1].exitReason = "failed") =>
     sm.status = "FAILED"

\* C7: the exit reason given to onSessionEnd is the true reason the loop
\* ended: completed only with status COMPLETED, cancelled for CANCELLED, failed
\* for FAILED or a propagated exception, waiting_for_input for
\* WAITING_FOR_INPUT, max_turns for an exhausted budget while RUNNING.
C7_TrueExitReason ==
  \A k \in 1..Len(sessionEnd) :
    LET e == sessionEnd[k]
        threw == result.kind = "error"
    IN /\ e.exitReason = "completed" => e.status = "COMPLETED"
       /\ (e.status = "CANCELLED" /\ ~threw) => e.exitReason = "cancelled"
       /\ (e.status = "FAILED" \/ threw) => e.exitReason = "failed"
       /\ (e.status = "WAITING_FOR_INPUT" /\ ~threw) => e.exitReason = "waiting_for_input"
       /\ (e.status = "RUNNING" /\ ~threw) => e.exitReason = "max_turns"
       /\ e.exitReason = "max_turns" => e.turns >= cfg.maxTurns

\* C8: once the model returned end_turn in a turn, the status is COMPLETED,
\* runSession returns that turn's message, the exit reason is completed, no
\* tool call of that response is processed and no further turn runs.
C8_EndTurnCompletes ==
  hist.endTurnAt # 0 =>
     /\ sm.status = "COMPLETED"
     /\ result = [kind |-> "message", turn |-> hist.endTurnAt]
     /\ exitReason = "completed"
     /\ pc \in {"finally", "returned"}
     /\ sm.turns = hist.endTurnAt
     /\ modelCalls = hist.endTurnAt
     /\ \A i \in 1..Len(batch) : batch[i].turn < hist.endTurnAt
     /\ \A k \in 1..Len(thread) : thread[k].toolCallId <= callId(hist.endTurnAt - 1, MaxCalls)
     /\ sessionEnd # <<>> => sessionEnd = <<[exitReason |-> "completed",
                                             turns |-> hist.endTurnAt,
                                             status |-> "COMPLETED"]>>

C8_Witness ==
  /\ hist.endTurnAt = 1 /\ hist.endTurnCalls > 0
  /\ hasTools(cfg)
  /\ pc = "returned"
  /\ modelCalls = 1 /\ sm.turns = 1

appendsFor(id) == {k \in 1..Len(thread) : thread[k].toolCallId = id}

SkipTraces ==
  {<<"gpre", "append_skipped">>, <<"tpre", "append_skipped">>,
   <<"gpre", "tpre", "append_skipped">>}

\* C9: a call skipped by a pre-hook gets exactly one appended result, the
\* skipped marker under the call's id, and neither its handler nor any post
\* or failure hook is invoked for it.
C9_SkippedCall ==
  \A i \in 1..Len(batch) :
    LET c == batch[i]
    IN /\ c.pc \in {"gskip", "tskip"} =>
            /\ appendsFor(c.id) = {}
            /\ c.trace \in {<<"gpre">>, <<"tpre">>, <<"gpre", "tpre">>}
       /\ includes(c.trace, "append_skipped") =>
            /\ c.pc = "skipped"
            /\ c.trace \in SkipTraces
            /\ Cardinality(appendsFor(c.id)) = 1
            /\ \A k \in appendsFor(c.id) : thread[k].content = "skipped"

C9_Witness ==
  \E i \in 1..Len(batch), j \in 1..Len(batch) :
    /\ batch[i].pc = "skipped" /\ batch[i].trace = <<"gpre", "tpre", "append_skipped">>
    /\ batch[j].pc = "skipped" /\ batch[j].trace = <<"gpre", "append_skipped">>
    /\ pc = "returned"

rank(tag) ==
  CASE tag = "gpre" -> 1
    [] tag = "tpre" -> 2
    [] tag = "handler" -> 3
    [] tag = "append_skipped" -> 3
    [] tag = "tfail" -> 4
    [] tag = "gfail" -> 5
    [] tag = "append" -> 6
    [] tag = "tpost" -> 7
    [] tag = "gpost" -> 8

inOrder(trace) == \A k \in 1..(Len(trace) - 1) : rank(trace[k]) < rank(trace[k + 1])

\* C10: the steps of every call run in the order global pre-hook, per-tool
\* pre-hook, handler, per-tool failure hook, global failure hook, append,
\* per-tool post-hook, global post-hook; a call that succeeded or was
\* recovered has run every configured pre-hook and post-hook, and the append.
C10_HookOrder ==
  \A i \in 1..Len(batch) :
    LET c == batch[i]
    IN /\ inOrder(c.trace)
       /\ c.pc = "done" =>
            /\ cfg.hooks.gPre <=> includes(c.trace, "gpre")
            /\ cfg.hooks.tPre <=> includes(c.trace, "tpre")
            /\ includes(c.trace, "handler") /\ includes(c.trace, "append")
            /\ cfg.hooks.tPost <=> includes(c.trace, "tpost")
            /\ cfg.hooks.gPost <=> includes(c.trace, "gpost")
            /\ includes(c.trace, "gfail") =>
                 (cfg.hooks.tFail <=> includes(c.trace, "tfail"))

C10_Witness ==
  \E i \in 1..Len(batch), j \in 1..Len(batch) :
    /\ batch[i].pc = "done"
    /\ batch[i].trace = <<"gpre", "tpre", "handler", "tfail", "gfail", "append", "tpost", "gpost">>
    /\ batch[j].pc = "done"
    /\ batch[j].trace = <<"gpre", "tpre", "handler", "append", "tpost", "gpost">>

position(trace, tag) == CHOOSE k \in 1..Len(trace) : trace[k] = tag

ResponseContents == {"response", "fallback", "suppressed"}

\* C11: every call that is not skipped and whose handler succeeds or is
\* recovered gets its response content appended exactly once, under its own
\* id, after the handler (or the recovering failure hook) and before any
\* post-hook; no call ever has two appended results.
C11_ResultAppendedOnce ==
  \A i \in 1..Len(batch) :
    LET c == batch[i]
        mine == appendsFor(c.id)
    IN /\ Cardinality(mine) <= 1
       /\ c.pc \in {"gpre", "tpre", "handler", "tfail", "gfail", "append", "thrown"} =>
            mine = {}
       /\ c.pc \in {"tpost", "gpost", "done"} =>
            /\ Cardinality(mine) = 1
            /\ \A k \in mine : thread[k].content = c.content
            /\ c.content \in ResponseContents
            /\ includes(c.trace, "handler") /\ includes(c.trace, "append")
            /\ position(c.trace, "handler") < position(c.trace, "append")
            /\ \A t \in {"tfail", "gfail"} :
                 includes(c.trace, t) => position(c.trace, t) < position(c.trace, "append")
            /\ \A t \in {"tpost", "gpost"} :
                 includes(c.trace, t) => position(c.trace, "append") < position(c.trace, t)

C11_Witness ==
  \E i \in 1..Len(batch), j \in 1..Len(batch) :
    /\ batch[i].pc = "done" /\ batch[i].content = "fallback"
    /\ includes(batch[i].trace, "gfail") /\ includes(batch[i].trace, "gpost")
    /\ batch[j].pc = "done" /\ batch[j].content = "response"
    /\ Len(thread) = 2

\* The values a schema can return.
ValidatedArgs == {schemaParse(a) : a \in {x \in RawArgs : schemaAccepts(x)}}

\* C12: in every turn, a handler runs only for calls whose arguments passed
\* validation, and every raw call whose arguments the schema of its tool
\* rejects has one error result in the thread and is not in the batch.
C12_InvalidNeverHandled ==
  /\ \A i \in 1..Len(batch) :
       /\ batch[i].id \notin hist.rejected
       /\ includes(batch[i].trace, "handler") => batch[i].args \in ValidatedArgs
  /\ \A id \in hist.rejected :
       /\ Cardinality(appendsFor(id)) = 1
       /\ \A k \in appendsFor(id) : thread[k].content = "invalid"

C12_Witness ==
  /\ hist.rejected # {}
  /\ \E i \in 1..Len(batch) :
       /\ batch[i].turn = 2
       /\ batch[i].pc = "done"
       /\ includes(batch[i].trace, "handler")

\* C13: parseToolCall fails with UnknownTool for a name that is not
\* registered, with InvalidArguments for a registered name whose arguments the
\* validator rejects, and otherwise returns the same name with the validated
\* arguments; the registered tools are never changed.
C13_ParseToolCall ==
  /\ [](\A k \in 1..Len(parseLog) :
          LET raw == rawToolCalls[k]
              out == parseLog[k]
          IN /\ raw.name \notin toolMap(cfg) => out.kind = "UnknownTool"
             /\ (raw.name \in toolMap(cfg) /\ raw.args = "bad") =>
                  out.kind = "InvalidArguments"
             /\ (raw.name \in toolMap(cfg) /\ raw.args # "bad") =>
                  /\ out.kind = "ok"
                  /\ out.name = raw.name
                  /\ out.args = schemaParse(raw.args)
                  /\ out.args \in ValidatedArgs)
  /\ [][toolMap(cfg)' = toolMap(cfg)]_vars

C13_Witness ==
  /\ Len(parseLog) = 2
  /\ \E k \in 1..2 : parseLog[k].kind = "ok" /\ rawToolCalls[k].args = "extra"
  /\ \E k \in 1..2 : parseLog[k].kind = "InvalidArguments"

\* C14: a parsed call keeps the id its raw call supplied, and a raw call
\* without an id gets an id no other parsed call of the response has.
C14_SynthesizedId ==
  \A k \in 1..Len(parseLog) :
    parseLog[k].kind = "ok" =>
      IF rawToolCalls[k].id # <<>>
        THEN parseLog[k].id = rawToolCalls[k].id[1]
        ELSE \A l \in 1..Len(parseLog) :
               (l # k /\ parseLog[l].kind = "ok") => parseLog[l].id # parseLog[k].id

\* C15: processToolCalls on an empty array returns, with an empty array, and
\* until it has returned nothing is appended to the thread, no hook runs and
\* the state manager is not touched.
C15_EmptyBatch ==
  /\ []((pc = "process" /\ batch = <<>>) =>
          /\ batchResolved(batch)
          /\ results(batch) = <<>>
          /\ \A k \in 1..Len(thread) : thread[k].content = "invalid")
  /\ [][(pc = "process" /\ batch = <<>>) =>
          /\ pc' \in {"loop", "finally"}
          /\ thread' = thread /\ batch' = batch /\ sm' = sm /\ hist' = hist]_vars

C15_Witness ==
  /\ pc = "loop" /\ batch = <<>> /\ thread = <<>>
  /\ sm.turns = 1 /\ modelCalls = 1
  /\ cfg.hooks.gPre /\ cfg.hooks.tPre

\* C16: once a call of a batch has thrown without recovery, no step of any
\* other call of the batch runs: no handler, no append, no hook.
C16_FailureAbortsBatch ==
  [][SomeCallThrew => (batch' = batch /\ thread' = thread)]_vars

batchIndex(id) == CHOOSE i \in 1..Len(batch) : batch[i].id = id
inBatch(id) == \E i \in 1..Len(batch) : batch[i].id = id

\* C17: in sequential mode a call takes its first step only after every
\* earlier call of the array has returned, and the results are appended in
\* the order of the array.
C17_SequentialOrder ==
  ~cfg.parallel =>
     /\ \A i \in 1..Len(batch), j \in 1..Len(batch) :
          (i < j /\ batch[j].trace # <<>>) => batch[i].pc \in {"done", "skipped"}
     /\ \A k \in 1..Len(thread), l \in 1..Len(thread) :
          (k < l /\ inBatch(thread[k].toolCallId) /\ inBatch(thread[l].toolCallId)) =>
             batchIndex(thread[k].toolCallId) < batchIndex(thread[l].toolCallId)

C17_Witness ==
  /\ ~cfg.parallel
  /\ Len(batch) = 2 /\ batch[1].pc = "done" /\ batch[2].pc = "done"
  /\ batch[1].id > batch[2].id
  /\ Len(thread) = 2
  /\ thread[1].toolCallId = batch[1].id /\ thread[2].toolCallId = batch[2].id

stage(tag) ==
  CASE tag \in {"gpre", "tpre"} -> 1
    [] tag = "handler" -> 2
    [] tag \in {"tfail", "gfail"} -> 3
    [] tag \in {"append", "append_skipped"} -> 4
    [] tag \in {"tpost", "gpost"} -> 5

\* C18: in parallel mode, whatever the interleaving, the steps of each call
\* occur in the order pre-hooks, handler, failure hooks, append, post-hooks,
\* none of them twice, and a call that returned a result has run its handler
\* and its append.
C18_ParallelPerCallOrder ==
  cfg.parallel =>
    \A i \in 1..Len(batch) :
      LET t == batch[i].trace
      IN /\ \A a \in 1..Len(t), b \in 1..Len(t) :
              /\ (a < b) => stage(t[a]) <= stage(t[b])
              /\ (a # b) => t[a] # t[b]
         /\ batch[i].pc = "done" =>
              /\ includes(t, "handler") /\ includes(t, "append")
              /\ \A a \in 1..Len(t) : t[a] # "append_skipped"

C18_Witness ==
  /\ cfg.parallel
  /\ Len(batch) = 2 /\ batch[1].pc = "done" /\ batch[2].pc = "tpost"
  /\ batch[1].trace = <<"gpre", "tpre", "handler", "append", "tpost", "gpost">>
  /\ Len(thread) = 2
  /\ thread[1].toolCallId = batch[2].id /\ thread[2].toolCallId = batch[1].id

\* C19: every raw call of a response that parseToolCall rejects (unknown tool
\* or invalid arguments) has exactly one inline error result in the thread,
\* and every other raw call is handed to processToolCalls.
C19_ParseFailureInlineError ==
  pc = "process" =>
    LET failing == {k \in 1..Len(rawToolCalls) :
                      parseToolCall(toolMap(cfg), rawToolCalls[k]).kind # "ok"}
    IN /\ Len(thread) = Cardinality(failing)
       /\ \A k \in failing :
            \E e \in 1..Len(thread) : thread[e].toolCallId = idOrEmpty(rawToolCalls[k])
       /\ Len(batch) = Len(rawToolCalls) - Cardinality(failing)

\* C20: when the status is WAITING_FOR_INPUT once processToolCalls has
\* returned, the model is not invoked again, runSession returns null and the
\* exit reason is waiting_for_input, on the last turn of the budget too.
C20_WaitingForInputBreaks ==
  /\ pc \in {"loop", "runAgent"} => sm.status # "WAITING_FOR_INPUT"
  /\ (pc \in {"finally", "returned"} /\ sm.status = "WAITING_FOR_INPUT"
        /\ result.kind # "error") =>
       /\ exitReason = "waiting_for_input"
       /\ result.kind = "null"
       /\ modelCalls = sm.turns
       /\ sessionEnd # <<>> =>
            sessionEnd = <<[exitReason |-> "waiting_for_input", turns |-> sm.turns,
                            status |-> "WAITING_FOR_INPUT"]>>

C20_Witness ==
  /\ pc = "returned"
  /\ result.kind = "null"
  /\ modelCalls = cfg.maxTurns
  /\ sessionEnd = <<[exitReason |-> "waiting_for_input", turns |-> cfg.maxTurns,
                     status |-> "WAITING_FOR_INPUT"]>>

TerminalStatuses == {"COMPLETED", "FAILED", "CANCELLED"}

\* C24: shouldReturnFromWait(lastKnownVersion) returns true exactly when
\* version > lastKnownVersion or the status is terminal, and changes nothing.
C24_ShouldReturnFromWait ==
  [][(result' # result /\ result'.kind = "shouldReturn") =>
       /\ result'.value <=>
            (sm.version > result'.last \/ sm.status \in TerminalStatuses)
       /\ sm' = sm /\ objects' = objects /\ updTasks' = updTasks]_vars

C24_Witness ==
  /\ result.kind = "shouldReturn"
  /\ result.value /\ result.last = 1
  /\ sm.version = 1 /\ sm.status = "FAILED"

\* C25: once the status is terminal, no state manager operation changes
\* status, version, turns, tools, tasks or a custom field.
C25_TerminalImmutable ==
  [][sm.status \in TerminalStatuses =>
       /\ sm' = sm
       /\ \A id \in sm.tasks : objects'[id] = objects[id]]_vars

\* C26: for tasks A and B of the task graph, an update of A with
\* addBlockedBy = [B] leaves B in A.blockedBy and A in B.blocks, and an update
\* of A with addBlocks = [B] leaves B in A.blocks and A in B.blockedBy.
C26_UpdateLinksBothSides ==
  [][\A args \in UpdateArgs, b \in sm.tasks :
       (TaskUpdateWith(args) /\ args.taskId \in sm.tasks) =>
          /\ args.addBlockedBy = <<b>> =>
               /\ includes(objects'[args.taskId].blockedBy, b)
               /\ includes(objects'[b].blocks, args.taskId)
          /\ args.addBlocks = <<b>> =>
               /\ includes(objects'[args.taskId].blocks, b)
               /\ includes(objects'[b].blockedBy, args.taskId)]_vars

\* C27: the task handlers work on one store: every task of the state manager
\* (read by get and list, written by create) is a task the update handler finds.
C27_OneTaskStore == \A id \in sm.tasks : id \in updTasks

\* C28: the snapshot of getCurrentState() carries the current status, version,
\* turns, tools, custom fields and tasks of the manager.
C28_FullSnapshot ==
  LET snap == getCurrentState(sm)
  IN /\ snap.status = sm.status /\ snap.version = sm.version
     /\ snap.turns = sm.turns /\ snap.tools = sm.tools /\ snap.custom = sm.custom
     /\ \A id \in sm.tasks : "tasks" \in DOMAIN snap /\ id \in snap.tasks

statusSetTo(status) ==
  /\ sm'.status = status
  /\ sm'.version = sm.version + 1
  /\ sm'.turns = sm.turns /\ sm'.tools = sm.tools
  /\ sm'.tasks = sm.tasks /\ sm'.custom = sm.custom
  /\ objects' = objects

\* C29: run, waitForInput, complete, fail and cancel each set the status to
\* their target value, add exactly one to version and leave turns, tools,
\* tasks and the custom fields as they were.
C29_StatusTransitions ==
  [][/\ Run => statusSetTo("RUNNING")
     /\ WaitForInput => statusSetTo("WAITING_FOR_INPUT")
     /\ Complete => statusSetTo("COMPLETED")
     /\ Fail => statusSetTo("FAILED")
     /\ Cancel => statusSetTo("CANCELLED")]_vars

C29_Witness ==
  /\ sm.status = "WAITING_FOR_INPUT"
  /\ sm.version = 2 /\ sm.turns = 1
  /\ sm.custom.k = "v1"

HardErrors == {"SubagentNotConfigured", "SubagentResultSchemaMismatch"}

\* C22: a Task call whose subagent is not among the configured ones makes the
\* handler raise at once, and no child execution is started for it.
C22_UnconfiguredRaises ==
  \A i \in 1..Len(batch) :
    batch[i].subagent \notin cfg.subagentNames =>
      /\ batch[i].children = 0
      /\ (\E k \in 1..Len(batch[i].trace) : batch[i].trace[k] = "handler") =>
           batch[i].error = "SubagentNotConfigured"

C22_Witness ==
  \E i \in 1..Len(batch) :
    /\ batch[i].subagent = Unconfigured
    /\ batch[i].error = "SubagentNotConfigured"
    /\ batch[i].children = 0
    /\ batch[i].pc = "thrown"

\* C23: a call that failed with SubagentNotConfigured or with
\* SubagentResultSchemaMismatch is never recovered by a failure hook: no tool
\* response is appended for it and it ends by throwing.
C23_HardFailures ==
  \A i \in 1..Len(batch) :
    batch[i].error \in HardErrors =>
      /\ batch[i].pc \notin {"append", "tpost", "gpost", "done"}
      /\ \A k \in 1..Len(thread) : thread[k].toolCallId # batch[i].id

\* A step of processToolCall for some call of the batch.
RouterStep ==
  \/ GlobalPre \/ ToolPre \/ AppendSkipped \/ Handler
  \/ ToolFailure \/ GlobalFailure \/ AppendResult \/ ToolPost \/ GlobalPost

failTags(c) == SelectSeq(c.trace, LAMBDA t : t \in {"tfail", "gfail"})

follows(trace, tag, later) ==
  \E k \in 1..Len(trace), l \in 1..Len(trace) :
    k < l /\ trace[k] = tag /\ trace[l] = later

\* C30: after a handler threw, the per-tool failure hook is consulted first and
\* the global one only if the per-tool hook did not recover; a result with
\* fallbackContent makes that content the response (also when suppress is set),
\* a result with suppress alone makes it the error marker; the recovered call
\* does not throw, its response is appended once and its post-hooks run.
C30_FailureRecovery ==
  \A i \in 1..Len(batch) :
    LET c == batch[i]
        tags == failTags(c)
        f == c.failures
    IN /\ Len(f) = Len(tags)
       /\ tags \in {<<>>, <<"tfail">>, <<"gfail">>, <<"tfail", "gfail">>}
       /\ (cfg.hooks.tFail /\ tags # <<>>) => tags[1] = "tfail"
       /\ tags = <<"tfail", "gfail">> => f[1] = "none"
       /\ (f # <<>> /\ f[Len(f)] # "none") =>
            /\ c.pc \in {"append", "tpost", "gpost", "done"}
            /\ c.content = IF f[Len(f)] \in {"fallback", "both"}
                             THEN "fallback" ELSE "suppressed"
            /\ c.pc = "append" => appendsFor(c.id) = {}
            /\ c.pc # "append" =>
                 /\ Cardinality(appendsFor(c.id)) = 1
                 /\ \A k \in appendsFor(c.id) : thread[k].content = c.content
            /\ c.pc = "done" =>
                 /\ cfg.hooks.tPost => follows(c.trace, "append", "tpost")
                 /\ cfg.hooks.gPost => follows(c.trace, "append", "gpost")

\* The per-tool hook did not recover, the global one returned fallbackContent
\* together with suppress, and the call went on to its end.
C30_Witness ==
  \E i \in 1..Len(batch) :
    /\ batch[i].failures = <<"none", "both">>
    /\ batch[i].content = "fallback"
    /\ batch[i].pc = "done"
    /\ batch[i].trace = <<"gpre", "tpre", "handler", "tfail", "gfail", "append",
                          "tpost", "gpost">>

noDuplicates(seq) == \A k \in 1..Len(seq), l \in 1..Len(seq) : seq[k] = seq[l] => k = l

\* C39: applying the same task update twice leaves every blockedBy and blocks
\* list as applying it once does, and no such list holds an id twice.
C39_AddRelationsIdempotent ==
  /\ \A i \in TaskIds :
       noDuplicates(objects[i].blockedBy) /\ noDuplicates(objects[i].blocks)
  /\ \A args \in RelationArgs :
       LET once == updateObjects(objects, updTasks, args)
           twice == updateObjects(once, updTasks, args)
       IN \A i \in TaskIds :
            /\ twice[i].blockedBy = once[i].blockedBy
            /\ twice[i].blocks = once[i].blocks
            /\ noDuplicates(once[i].blockedBy) /\ noDuplicates(once[i].blocks)

\* The same update was applied twice in a row to a task related to another.
C39_Witness ==
  /\ ops = 0 /\ sm.version = 2
  /\ objects[1].blockedBy = <<2>> /\ objects[2].blocks = <<1>>
  /\ objects[1].blocks = <<>> /\ objects[2].blockedBy = <<>>

\* C33: a step that adds a relation between two tasks of the task graph
\* stores both of its sides and bumps version, so that no state between two
\* steps shows one side without the other or the change without a new version.
C33_RelationAddedAtomically ==
  [][\A a \in sm'.tasks, b \in sm'.tasks :
       /\ (includes(objects'[a].blockedBy, b) /\ ~includes(objects[a].blockedBy, b)) =>
            includes(objects'[b].blocks, a) /\ sm'.version > sm.version
       /\ (includes(objects'[a].blocks, b) /\ ~includes(objects[a].blocks, b)) =>
            includes(objects'[b].blockedBy, a) /\ sm'.version > sm.version]_vars

\* C34: the create handler stores a task under an id that no stored task has,
\* with status pending and empty blockedBy and blocks, adds one to version and
\* leaves the tasks stored before as they were.
C34_CreateStoresFreshTask ==
  [][TaskCreate =>
       \E id \in TaskIds :
         /\ id \notin sm.tasks /\ id \notin updTasks
         /\ sm'.tasks = sm.tasks \cup {id}
         /\ objects'[id] = [id |-> id, status |-> "pending",
                            blockedBy |-> <<>>, blocks |-> <<>>]
         /\ sm'.version = sm.version + 1
         /\ \A old \in sm.tasks \cup updTasks : objects'[old] = objects[old]]_vars

\* A task was created next to one that was there from the start.
C34_Witness ==
  /\ sm.tasks = {1, 2} /\ updTasks = {1}
  /\ objects[2].status = "pending" /\ objects[2].id = 2
  /\ sm.version = 1

storeUnchanged == sm' = sm /\ objects' = objects /\ updTasks' = updTasks

C35_WaitIsBounded ==
  /\ (pc = "waiting") ~> (pc = "waited")
  /\ []((pc = "waiting" /\ (sm.version > result.last \/ sm.status \in TerminalStatuses))
          => ENABLED ConditionMet)
  /\ [][(pc = "resumed" /\ pc' = "waited") =>
          /\ result'.state = [status |-> sm.status, version |-> sm.version,
                              turns |-> sm.turns, tools |-> sm.tools,
                              custom |-> sm.custom]
          /\ sm' = sm]_vars
  /\ [][(pc = "waiting" /\ pc' = "resumed" /\ ~result'.timedOut) =>
          (sm.version > result.last \/ sm.status \in TerminalStatuses)]_vars

\* Nothing changed since the version the client held; the request returned by
\* the timeout with the state as it is.
C35_Witness ==
  /\ pc = "waited"
  /\ result.timedOut
  /\ result.state.version = result.last
  /\ result.state.status = "WAITING_FOR_INPUT"
  /\ sm.version = result.last

C37_EveryRawCallAnswered ==
  (pc = "process" /\ batchResolved(batch)) =>
    /\ \A i \in 1..hist.rawCalls :
         Cardinality(appendsFor(callId(getTurns(sm), i))) = 1
    /\ Len(thread) = hist.rawCalls

\* The arguments in effect after the global pre-hook, and after both pre-hooks.
afterGlobalArgs(c) == IF c.gMod # NoArgs THEN c.gMod ELSE c.args
layeredArgs(c) == IF c.tMod # NoArgs THEN c.tMod ELSE afterGlobalArgs(c)

\* What the stages named saw, against the layered arguments.
seeLayered(c, stages) ==
  \A k \in 1..Len(c.seen) :
    /\ c.seen[k].stage = "tpre" => c.seen[k].args = afterGlobalArgs(c)
    /\ c.seen[k].stage \in stages => c.seen[k].args = layeredArgs(c)

\* C31: the handler receives the parsed arguments replaced by the global
\* pre-hook's modifiedArgs, if any, then by the per-tool pre-hook's, if any;
\* the per-tool pre-hook, both failure hooks and the per-tool post-hook are
\* called with the arguments as modified so far.
C31_ModifiedArgsLayering ==
  \A i \in 1..Len(batch) :
    seeLayered(batch[i], {"handler", "tfail", "gfail", "tpost"})

\* The hooks of the subagent the call names, "none" if it has none.
namedOwner(c) ==
  IF subagentHooked(cfg, resolveSubagentName(c.args))
    THEN resolveSubagentName(c.args) ELSE "none"

perToolStages == {"tpre", "tfail", "tpost"}

\* C32: for a Task call naming subagent S every per-tool hook that runs is
\* one of S, and when S has no hooks the call is neither skipped by a
\* per-tool pre-hook nor recovered by a per-tool failure hook.
C32_OnlyNamedSubagentHooks ==
  \A i \in 1..Len(batch) :
    batch[i].name = "Task" =>
      /\ \A k \in 1..Len(batch[i].seen) :
           batch[i].seen[k].stage \in perToolStages =>
             batch[i].seen[k].owner = namedOwner(batch[i])
      /\ namedOwner(batch[i]) = "none" =>
           /\ batch[i].pc # "tskip"
           /\ \A k \in 1..Len(batch[i].trace) :
                batch[i].trace[k] = "tfail" =>
                  IF k = Len(batch[i].trace) THEN batch[i].pc # "append"
                  ELSE batch[i].trace[k + 1] # "append"

\* Position in the input array of the call a result belongs to.
callOf(toolCallId) == CHOOSE i \in 1..Len(batch) : batch[i].id = toolCallId
wasSkipped(c) == \E k \in 1..Len(c.trace) : c.trace[k] = "append_skipped"

\* C36: processToolCalls resolves to one result for each call that was not
\* skipped and none for a skipped one, each with the id and the name of its
\* call, in the order of the input array.
C36_ResultsInInputOrder ==
  (pc = "returned" /\ result.kind = "results") =>
    LET list == result.list
    IN /\ \A i \in 1..Len(batch) :
            Cardinality({k \in 1..Len(list) : list[k].toolCallId = batch[i].id})
              = IF wasSkipped(batch[i]) THEN 0 ELSE 1
       /\ \A k \in 1..Len(list) :
            /\ \E i \in 1..Len(batch) : batch[i].id = list[k].toolCallId
            /\ list[k].name = batch[callOf(list[k].toolCallId)].name
       /\ \A k \in 1..Len(list), l \in 1..Len(list) :
            k < l => callOf(list[k].toolCallId) < callOf(list[l].toolCallId)

\* A parallel batch of a Task call and a Read call whose results were
\* appended in the reverse order, with both results returned.
C36_Witness ==
  /\ pc = "returned" /\ result.kind = "results"
  /\ cfg.parallel
  /\ Len(batch) = 2 /\ batch[1].name = "Task" /\ batch[2].name = "Read"
  /\ Len(result.list) = 2
  /\ Len(thread) = 2 /\ thread[1].toolCallId = batch[2].id

====
